---- MODULE Spec2Model ----
(***************************************************************************)
(* Model of the message handlers of discord-play-register                  *)
(* (src/handlers.py).  Message texts are sequences of one-character        *)
(* strings, so that startswith / index / strip / split act on them as the  *)
(* Python string methods do.  The roster store (db), the game catalog      *)
(* (game) and extract_remainder_after_fragments (utils) are imported by    *)
(* handlers.py from other modules; they are modelled from the              *)
(* specification's description of them.                                    *)
(***************************************************************************)
EXTENDS Integers, Sequences, FiniteSets, TLC

(***************************************************************************)
(* Bounds                                                                  *)
(***************************************************************************)
\* The clock stops advancing at MaxTime.
MaxTime == 1

(***************************************************************************)
(* Python string primitives on character sequences                         *)
(***************************************************************************)
UpperChars == <<"A","B","C","D","E","F","G","H","I","J","K","L","M",
                "N","O","P","Q","R","S","T","U","V","W","X","Y","Z">>
LowerChars == <<"a","b","c","d","e","f","g","h","i","j","k","l","m",
                "n","o","p","q","r","s","t","u","v","w","x","y","z">>

\* str.lower() on one character
LowerChar(c) ==
    IF \E i \in 1..26 : UpperChars[i] = c
    THEN LowerChars[CHOOSE i \in 1..26 : UpperChars[i] = c]
    ELSE c

\* str.lower()
Lower(s) == [i \in 1..Len(s) |-> LowerChar(s[i])]

\* s.startswith(p)
StartsWith(s, p) == Len(p) <= Len(s) /\ SubSeq(s, 1, Len(p)) = p

\* s[n:]  (n characters dropped)
Drop(s, n) == SubSeq(s, n + 1, Len(s))

IsSpace(c) == c = " "

\* s.strip()
Strip(s) ==
    IF \A i \in 1..Len(s) : IsSpace(s[i]) THEN <<>>
    ELSE LET first == CHOOSE i \in 1..Len(s) :
                         ~IsSpace(s[i]) /\ \A j \in 1..(i-1) : IsSpace(s[j])
             last  == CHOOSE i \in 1..Len(s) :
                         ~IsSpace(s[i]) /\ \A j \in (i+1)..Len(s) : IsSpace(s[j])
         IN  SubSeq(s, first, last)

\* s.index(c) as a 1-based position, 0 when c does not occur (where Python
\* raises ValueError)
IndexOf(s, c) ==
    IF \E i \in 1..Len(s) : s[i] = c
    THEN CHOOSE i \in 1..Len(s) : s[i] = c /\ \A j \in 1..(i-1) : s[j] # c
    ELSE 0

\* s.split(d) for a one-character delimiter d: the pieces between the
\* delimiters, empty pieces included
RECURSIVE SplitBy(_, _)
SplitBy(s, d) ==
    LET i == IndexOf(s, d)
    IN  IF i = 0 THEN <<s>>
        ELSE <<SubSeq(s, 1, i - 1)>> \o SplitBy(Drop(s, i), d)

\* s.find(p) as a 1-based position, 0 when p does not occur in s
Find(s, p) ==
    LET hits == {i \in 1..(Len(s) - Len(p) + 1) : SubSeq(s, i, i + Len(p) - 1) = p}
    IN  IF hits = {} THEN 0 ELSE CHOOSE i \in hits : \A j \in hits : i <= j

\* p in s
Contains(s, p) == Find(s, p) # 0

\* s.replace(p, '', 1)
RemoveFirst(s, p) ==
    LET i == Find(s, p)
    IN  IF i = 0 THEN s ELSE SubSeq(s, 1, i - 1) \o Drop(s, i + Len(p) - 1)

\* sep.join(ss)
RECURSIVE Join(_, _)
Join(sep, ss) ==
    IF ss = <<>> THEN <<>>
    ELSE IF Len(ss) = 1 THEN Head(ss)
    ELSE Head(ss) \o sep \o Join(sep, Tail(ss))

(***************************************************************************)
(* Texts                                                                   *)
(***************************************************************************)
\* The character U+2019 (right single quotation mark) of the fragments on
\* line 93 is written "rsquo"; it is one element of a text.
T_Id_play    == <<"I","'","d"," ","p","l","a","y">>
T_id_play    == <<"i","d"," ","p","l","a","y">>
T_Id_paly    == <<"I","'","d"," ","p","a","l","y">>
T_id_paly    == <<"i","d"," ","p","a","l","y">>
T_Iqd_play   == <<"I","rsquo","d"," ","p","l","a","y">>
T_Iqd_paly   == <<"I","rsquo","d"," ","p","a","l","y">>
T_Iqdplay    == <<"I","rsquo","d","p","l","a","y">>
T_Iqdpaly    == <<"I","rsquo","d","p","a","l","y">>
T_same_to    == <<"s","a","m","e"," ","t","o">>
T_same       == <<"s","a","m","e">>
T_status     == <<"s","t","a","t","u","s">>
T_clear      == <<"c","l","e","a","r">>
T_cancel     == <<"c","a","n","c","e","l">>
T_ping       == <<"p","i","n","g">>
T_p          == <<"p">>
T_chess      == <<"c","h","e","s","s">>
T_Chess      == <<"C","h","e","s","s">>
T_go         == <<"g","o">>
T_Go         == <<"G","o">>
T_x          == <<"x">>
T_query      == <<"q","u","e","r","y">>
T_query_games == <<"q","u","e","r","y"," ","g","a","m","e","s">>
T_games      == <<"g","a","m","e","s">>
T_aliases    == <<"a","l","i","a","s","e","s">>
T_name       == <<"n","a","m","e">>
T_class      == <<"_","_","c","l","a","s","s","_","_">>
T_Play_Register == <<"P","l","a","y"," ","R","e","g","i","s","t","e","r">>
T_role_marker == <<"<","@","&">>
SP           == <<" ">>
SL           == <<"/">>

\* CLIENT_ID, the bot's own id, read from the environment
CLIENT_ID == <<"1">>

\* a mention of user id: <@id> and <@!id>
Mention(id)     == <<"<","@">> \o id \o <<">">>
MentionBang(id) == <<"<","@","!">> \o id \o <<">">>

(***************************************************************************)
(* Players (owned by the messaging platform)                               *)
(***************************************************************************)
Players == {"A", "B"}

\* player.id
PlayerId(p) == IF p = "A" THEN <<"2">> ELSE <<"3">>

\* message.author.display_name
display_name(p) == p

\* create_mention(player) = '<@!%s>' % player.id
create_mention(player) == <<"<","@","!">> \o PlayerId(player) \o <<">">>

(***************************************************************************)
(* Game catalog (module game)                                              *)
(***************************************************************************)
\* "no game": the None that lookup_game_by_name_or_alias returns
NoGame == "None"

\* the static catalog, in its order
games == <<"Chess", "Go">>

GameSet == {games[i] : i \in 1..Len(games)}

\* game.name as a text
GameNameText(g) == IF g = "Chess" THEN T_Chess ELSE T_Go

\* game.aliases
GameAliases(g) == IF g = "Chess" THEN {T_chess} ELSE {T_go}

\* the number of committed players at which a game is ready
min_players(g) == IF g = "Chess" THEN 2 ELSE 1

\* lookup_game_by_name_or_alias(name): case-insensitive, canonical names
\* first, then aliases; NoGame for an unknown name
lookup_game_by_name_or_alias(name) ==
    IF \E g \in GameSet : Lower(GameNameText(g)) = Lower(name)
    THEN CHOOSE g \in GameSet : Lower(GameNameText(g)) = Lower(name)
    ELSE IF \E g \in GameSet : \E a \in GameAliases(g) : Lower(a) = Lower(name)
    THEN CHOOSE g \in GameSet : \E a \in GameAliases(g) : Lower(a) = Lower(name)
    ELSE NoGame

(***************************************************************************)
(* Roster store (module db).  The store is a sequence of would-play        *)
(* records in the order they were recorded; wps is such a sequence.        *)
(***************************************************************************)
WouldPlay(player, game, t) == [player |-> player, game |-> game, recorded_at |-> t]

\* db.record_would_play(player, game) at time t: the new record supersedes
\* an older record of the same player for the same game
record_would_play(wps, player, game, t) ==
    Append(SelectSeq(wps, LAMBDA r : ~(r.player = player /\ r.game = game)),
           WouldPlay(player, game, t))

\* the records of one game, oldest first
RecordsOf(wps, game) == SelectSeq(wps, LAMBDA r : r.game = game)

\* game.get_available_players(): the players committed to the game
get_available_players(wps, game) ==
    LET rs == RecordsOf(wps, game) IN [i \in 1..Len(rs) |-> rs[i].player]

\* game.get_players_for_next_game()
get_players_for_next_game(wps, game) == get_available_players(wps, game)

\* game.is_ready_to_play: enough committed players
is_ready_to_play(wps, game) ==
    Len(get_available_players(wps, game)) >= min_players(game)

\* game.get_ready_messages(): the game's readiness announcement
get_ready_messages(wps, game) == <<[kind |-> "ready", game |-> game]>>

\* db.get_last_would_play(game): the most recent record of the game, of any
\* game when game is NoGame; NoRecord when there is none
NoRecord == [player |-> "-", game |-> NoGame, recorded_at |-> -1]

get_last_would_play(wps, game) ==
    LET rs == IF game = NoGame THEN wps ELSE RecordsOf(wps, game)
    IN  IF rs = <<>> THEN NoRecord ELSE rs[Len(rs)]

\* db.get_last_would_plays_at_same_time(): the records that share the most
\* recent timestamp
get_last_would_plays_at_same_time(wps) ==
    IF wps = <<>> THEN <<>>
    ELSE SelectSeq(wps, LAMBDA r : r.recorded_at = wps[Len(wps)].recorded_at)

\* db.clear_game(game)
clear_game(wps, game) == SelectSeq(wps, LAMBDA r : r.game # game)

\* db.cancel_would_plays(player)
cancel_would_plays(wps, player) == SelectSeq(wps, LAMBDA r : r.player # player)

(***************************************************************************)
(* Text extraction                                                         *)
(***************************************************************************)
\* utils.extract_remainder_after_fragments(fragments, content): the first
\* fragment the content starts with (case-insensitively) is removed and the
\* rest trimmed; the content unchanged when it starts with none
RECURSIVE extract_remainder_after_fragments(_, _)
extract_remainder_after_fragments(fragments, content) ==
    IF fragments = <<>> THEN content
    ELSE IF StartsWith(Lower(content), Lower(Head(fragments)))
         THEN Strip(Drop(content, Len(Head(fragments))))
         ELSE extract_remainder_after_fragments(Tail(fragments), content)

\* split_by_first_mention(message): ok is FALSE where msg.index('>') raises
\* ValueError
split_by_first_mention(msg) ==
    IF StartsWith(msg, <<"<","@">>)
    THEN LET idx == IndexOf(msg, ">")
         IN  IF idx = 0
             THEN [ok |-> FALSE, mention |-> <<>>, remainder |-> <<>>]
             ELSE [ok |-> TRUE, mention |-> SubSeq(msg, 1, idx),
                   remainder |-> Strip(Drop(msg, idx))]
    ELSE [ok |-> TRUE, mention |-> <<>>, remainder |-> msg]

\* mention[a:-1] for a in {2, 3}
InnerId(mention, a) ==
    IF Len(mention) - 1 >= a + 1 THEN SubSeq(mention, a + 1, Len(mention) - 1)
    ELSE <<>>

\* is_bot_mention(mention)
is_bot_mention(mention) ==
    InnerId(mention, IF StartsWith(mention, <<"<","@","!">>) THEN 3 ELSE 2) = CLIENT_ID

(***************************************************************************)
(* Messages                                                                *)
(***************************************************************************)
BotSays(words) == Mention(CLIENT_ID) \o SP \o words

WouldPlayMessages ==
    { T_Id_play \o SP \o T_chess,                    \* I'd play chess
      T_Id_play \o SP \o T_go,                       \* I'd play go
      T_Id_play \o SP \o T_chess \o SL \o T_go,      \* I'd play chess/go
      T_Id_play \o SP \o T_chess \o SL \o T_chess,   \* I'd play chess/chess
      T_id_play \o SP \o T_Chess,                    \* id play Chess
      T_Id_play \o SP \o T_x,                        \* I'd play x
      T_Id_play \o SP \o T_go \o SL \o T_x,          \* I'd play go/x
      T_Id_play,                                     \* I'd play
      T_Id_play \o SP \o SL }                        \* I'd play /

SameMessages ==
    { T_same,                                        \* same
      T_same \o SP \o T_chess,                       \* same chess
      T_same_to \o SP \o T_go,                       \* same to go
      T_same \o SP \o T_x }                          \* same x

MentionMessages ==
    { BotSays(T_status),                             \* <@1> status
      MentionBang(CLIENT_ID) \o SP \o T_status,      \* <@!1> status
      Mention(<<"3">>) \o SP \o T_status,            \* <@3> status
      BotSays(T_clear \o SP \o T_chess),             \* <@1> clear chess
      BotSays(T_clear \o SP \o SL \o T_go),          \* <@1> clear /go
      BotSays(T_clear),                              \* <@1> clear
      BotSays(T_cancel),                             \* <@1> cancel
      BotSays(T_ping \o SP \o T_chess),              \* <@1> ping chess
      BotSays(T_ping),                               \* <@1> ping
      BotSays(T_p \o SL \o T_go) }                   \* <@1> p/go

QueryMessages ==
    { BotSays(T_query_games),                                    \* <@1> query games
      BotSays(T_query \o SP \o T_aliases \o SP \o T_chess),      \* <@1> query aliases chess
      BotSays(T_query \o SP \o T_aliases \o SP \o T_x),          \* <@1> query aliases x
      BotSays(T_query \o SP \o T_class \o SP \o T_x),            \* <@1> query __class__ x
      BotSays(T_query \o SP \o T_aliases),                       \* <@1> query aliases
      BotSays(T_query) }                                         \* <@1> query

\* the id of the role named "Play Register"
ROLE_ID == <<"9">>

RoleMessages ==
    { T_role_marker \o ROLE_ID \o <<">">> \o SP \o T_status }    \* <@&9> status

\* a mention that lacks its closing ">"
UnclosedMessages ==
    { <<"<","@">> \o CLIENT_ID \o SP \o T_status }               \* <@1 status

Messages ==
    WouldPlayMessages \cup SameMessages \cup MentionMessages
        \cup QueryMessages \cup RoleMessages \cup UnclosedMessages

\* message.clean_content: the mention of the role is rendered as its name
clean_content(content) ==
    IF StartsWith(content, T_role_marker \o ROLE_ID \o <<">">>)
    THEN <<"@">> \o T_Play_Register \o Drop(content, Len(T_role_marker \o ROLE_ID) + 1)
    ELSE content

\* the orders in which a set of catalog games can be iterated
Orders == {o \in [1..Len(games) -> GameSet] : \A g \in GameSet : \E i \in 1..Len(games) : o[i] = g}

(***************************************************************************)
(* Handlers.  A response generator maps the store to a result: the store   *)
(* after it, the responses it returns (out) and whether it raised; the     *)
(* responses of a generator that raised are lost, what it wrote to the     *)
(* store before raising stays.                                             *)
(***************************************************************************)
Result(wps, out, raised) == [wps |-> wps, out |-> out, raised |-> raised]

Raise(wps) == Result(wps, <<>>, TRUE)

\* get_any_ready_messages without the test of is_ready_to_play
get_any_ready_messages_Always(wps, game) == get_ready_messages(wps, game)

\* get_any_ready_messages(game)
get_any_ready_messages(wps, game) ==
    IF is_ready_to_play(wps, game) THEN get_ready_messages(wps, game) ELSE <<>>

\* "%s would play %s (that's %s)" and "%s would also play %s (that's %s)"
Line(kind, user, game, count) ==
    [kind |-> kind, user |-> user, game |-> game, count |-> count]

\* WouldPlayHandler.fragments
WouldPlayHandler_fragments ==
    <<T_Id_play, T_id_play, T_Id_paly, T_id_paly,
      T_Iqd_play, T_Iqd_paly, T_Iqdplay, T_Iqdpaly>>

\* WouldPlayHandler.get_all_responses_with_game reading the count before the
\* record is stored
WouldPlayHandler_with_game_StaleCount(wps, author, game, t) ==
    IF game = NoGame THEN Raise(wps)
    ELSE LET w == record_would_play(wps, author, game, t)
         IN  Result(w,
                    <<Line("would_play", author, game,
                           Len(get_available_players(wps, game)))>>
                        \o get_any_ready_messages(w, game),
                    FALSE)

\* WouldPlayHandler.get_all_responses_with_game at time t.  With game None
\* the call game.get_available_players() raises AttributeError; no record of
\* a non-existent game is kept by the store.
WouldPlayHandler_with_game(wps, author, game, t) ==
    IF game = NoGame THEN Raise(wps)
    ELSE LET w == record_would_play(wps, author, game, t)
         IN  Result(w,
                    <<Line("would_play", author, game,
                           Len(get_available_players(w, game)))>>
                        \o get_any_ready_messages(w, game),
                    FALSE)

\* SameHandler.fragments
SameHandler_fragments == <<T_same_to, T_same>>

\* SameHandler.get_all_responses_with_optional_game recording the player of
\* the last record instead of the author
SameHandler_with_optional_game_LastPlayer(wps, author, game, t) ==
    LET last_would_play == get_last_would_play(wps, game)
    IN  IF last_would_play = NoRecord THEN Result(wps, <<>>, FALSE)
        ELSE LET g == IF game # NoGame THEN game ELSE last_would_play.game
                 w == record_would_play(wps, last_would_play.player, g, t)
             IN  Result(w,
                        <<Line("would_also_play", author, g,
                               Len(get_available_players(w, g)))>>
                            \o get_any_ready_messages(w, g),
                        FALSE)

\* SameHandler.get_all_responses_with_optional_game without the early return
\* of line 123: with no last record the named game is recorded, and with no
\* game either last_would_play.game raises AttributeError
SameHandler_with_optional_game_NoCheck(wps, author, game, t) ==
    LET last_would_play == get_last_would_play(wps, game)
    IN  IF last_would_play = NoRecord /\ game = NoGame THEN Raise(wps)
        ELSE LET g == IF game # NoGame THEN game ELSE last_would_play.game
                 w == record_would_play(wps, author, g, t)
             IN  Result(w,
                        <<Line("would_also_play", author, g,
                               Len(get_available_players(w, g)))>>
                            \o get_any_ready_messages(w, g),
                        FALSE)

\* SameHandler.get_all_responses_with_optional_game recording the game it
\* was called with instead of game or last_would_play.game: with no game the
\* count read of line 130 raises AttributeError on None
SameHandler_with_optional_game_NoFallback(wps, author, game, t) ==
    LET last_would_play == get_last_would_play(wps, game)
    IN  IF last_would_play = NoRecord THEN Result(wps, <<>>, FALSE)
        ELSE IF game = NoGame THEN Raise(wps)
        ELSE LET w == record_would_play(wps, author, game, t)
             IN  Result(w,
                        <<Line("would_also_play", author, game,
                               Len(get_available_players(w, game)))>>
                            \o get_any_ready_messages(w, game),
                        FALSE)

\* SameHandler.get_all_responses_with_optional_game
SameHandler_with_optional_game(wps, author, game, t) ==
    LET last_would_play == get_last_would_play(wps, game)
    IN  IF last_would_play = NoRecord THEN Result(wps, <<>>, FALSE)
        ELSE LET g == IF game # NoGame THEN game ELSE last_would_play.game
                 w == record_would_play(wps, author, g, t)
             IN  Result(w,
                        <<Line("would_also_play", author, g,
                               Len(get_available_players(w, g)))>>
                            \o get_any_ready_messages(w, g),
                        FALSE)

\* the first loop of SameHandler.get_all_responses_without_game over the
\* games gs (a sequence): record, then one line per game
RECURSIVE SameRecordLoop(_, _, _, _)
SameRecordLoop(wps, author, gs, t) ==
    IF gs = <<>> THEN Result(wps, <<>>, FALSE)
    ELSE LET w    == record_would_play(wps, author, Head(gs), t)
             line == Line("would_also_play", author, Head(gs),
                          Len(get_available_players(w, Head(gs))))
             rest == SameRecordLoop(w, author, Tail(gs), t)
         IN  Result(rest.wps, <<line>> \o rest.out, FALSE)

\* the second loop: the readiness messages of the games gs
RECURSIVE SameReadyLoop(_, _)
SameReadyLoop(wps, gs) ==
    IF gs = <<>> THEN <<>>
    ELSE get_any_ready_messages(wps, Head(gs)) \o SameReadyLoop(wps, Tail(gs))

\* SameHandler.get_all_responses_without_game with one loop: each game's
\* readiness messages right after its line
RECURSIVE SameInterleavedLoop(_, _, _, _)
SameInterleavedLoop(wps, author, gs, t) ==
    IF gs = <<>> THEN Result(wps, <<>>, FALSE)
    ELSE LET w    == record_would_play(wps, author, Head(gs), t)
             line == Line("would_also_play", author, Head(gs),
                          Len(get_available_players(w, Head(gs))))
             rest == SameInterleavedLoop(w, author, Tail(gs), t)
         IN  Result(rest.wps,
                    <<line>> \o get_any_ready_messages(w, Head(gs)) \o rest.out,
                    FALSE)

SameHandler_without_game_Interleaved(wps, author, t, order) ==
    LET last_would_plays == get_last_would_plays_at_same_time(wps)
    IN  IF last_would_plays = <<>> THEN Result(wps, <<>>, FALSE)
        ELSE LET gset == {last_would_plays[i].game : i \in 1..Len(last_would_plays)}
                 gs   == SelectSeq(order, LAMBDA g : g \in gset)
             IN  SameInterleavedLoop(wps, author, gs, t)

\* SameHandler.get_all_responses_without_game iterating the catalog instead
\* of the games of the last would-plays
SameHandler_without_game_AllGames(wps, author, t, order) ==
    LET last_would_plays == get_last_would_plays_at_same_time(wps)
    IN  IF last_would_plays = <<>> THEN Result(wps, <<>>, FALSE)
        ELSE LET r == SameRecordLoop(wps, author, order, t)
             IN  Result(r.wps, r.out \o SameReadyLoop(r.wps, order), FALSE)

\* SameHandler.get_all_responses_without_game.  order is the order in which
\* the set of games is iterated (the same in both loops): a sequence of all
\* catalog games, of which those of the last would-plays are kept.
SameHandler_without_game(wps, author, t, order) ==
    LET last_would_plays == get_last_would_plays_at_same_time(wps)
    IN  IF last_would_plays = <<>> THEN Result(wps, <<>>, FALSE)
        ELSE LET gset == {last_would_plays[i].game : i \in 1..Len(last_would_plays)}
                 gs   == SelectSeq(order, LAMBDA g : g \in gset)
                 r    == SameRecordLoop(wps, author, gs, t)
             IN  Result(r.wps, r.out \o SameReadyLoop(r.wps, gs), FALSE)

\* the status lines without the test `if players`
RECURSIVE StatusLines_NoFilter(_, _)
StatusLines_NoFilter(wps, gs) ==
    IF gs = <<>> THEN <<>>
    ELSE <<[kind |-> "has", game |-> Head(gs),
            count |-> Len(get_available_players(wps, Head(gs)))]>>
             \o StatusLines_NoFilter(wps, Tail(gs))

\* StatusHandler.get_all_responses: one response, the lines joined
RECURSIVE StatusLines(_, _)
StatusLines(wps, gs) ==
    IF gs = <<>> THEN <<>>
    ELSE LET players == get_available_players(wps, Head(gs))
         IN  (IF players # <<>>
              THEN <<[kind |-> "has", game |-> Head(gs), count |-> Len(players)]>>
              ELSE <<>>) \o StatusLines(wps, Tail(gs))

RECURSIVE StatusReady(_, _)
StatusReady(wps, gs) ==
    IF gs = <<>> THEN <<>>
    ELSE (IF get_available_players(wps, Head(gs)) # <<>>
          THEN get_any_ready_messages(wps, Head(gs))
          ELSE <<>>) \o StatusReady(wps, Tail(gs))

BotAlive == [kind |-> "Bot alive"]

\* StatusHandler.get_all_responses clearing the games it reports as ready
StatusHandler_get_all_responses_ClearReady(wps) ==
    Result(SelectSeq(wps, LAMBDA r : ~is_ready_to_play(wps, r.game)),
           <<[kind |-> "joined",
              lines |-> <<BotAlive>> \o StatusLines(wps, games) \o StatusReady(wps, games)]>>,
           FALSE)

StatusHandler_get_all_responses(wps) ==
    Result(wps,
           <<[kind |-> "joined",
              lines |-> <<BotAlive>> \o StatusLines(wps, games) \o StatusReady(wps, games)]>>,
           FALSE)

\* ClearHandler.get_all_responses_with_game
ClearHandler_with_game(wps, game) ==
    IF game # NoGame
    THEN Result(clear_game(wps, game), <<[kind |-> "Cleared", game |-> game]>>, FALSE)
    ELSE Result(wps, <<[kind |-> "No game specified!"]>>, FALSE)

\* CancelHandler.get_all_responses cancelling the would-plays of every player
CancelHandler_get_all_responses_Everyone(wps, author) ==
    Result(<<>>, <<[kind |-> "Cancelled", name |-> display_name(author)]>>, FALSE)

\* CancelHandler.get_all_responses
CancelHandler_get_all_responses(wps, author) ==
    Result(cancel_would_plays(wps, author),
           <<[kind |-> "Cancelled", name |-> display_name(author)]>>,
           FALSE)

\* PingHandler.get_all_responses_with_game.  With game None the call
\* game.get_players_for_next_game() raises AttributeError.
PingHandler_with_game(wps, game) ==
    IF game = NoGame THEN Raise(wps)
    ELSE LET players == get_players_for_next_game(wps, game)
         IN  Result(clear_game(wps, game),
                    <<[kind |-> "ping",
                       mentions |-> [i \in 1..Len(players) |-> create_mention(players[i])],
                       game |-> game]>>,
                    FALSE)

\* self.fragments of the handlers built on GameExtractionMixin; for a
\* MentionMessageHandler they are its keywords (line 75)
Fragments(handler) ==
    CASE handler = "WouldPlay" -> WouldPlayHandler_fragments
      [] handler = "Same"      -> SameHandler_fragments
      [] handler = "Clear"     -> <<T_clear>>
      [] handler = "Ping"      -> <<T_ping, T_p>>

\* self.get_all_responses_with_game
WithGame(handler, wps, author, game, t) ==
    CASE handler = "WouldPlay" -> WouldPlayHandler_with_game(wps, author, game, t)
      [] handler = "Same"      -> SameHandler_with_optional_game(wps, author, game, t)
      [] handler = "Clear"     -> ClearHandler_with_game(wps, game)
      [] handler = "Ping"      -> PingHandler_with_game(wps, game)

\* self.get_all_responses_without_game: [] unless SameHandler overrides it
WithoutGame(handler, wps, author, t, order) ==
    IF handler = "Same" THEN SameHandler_without_game(wps, author, t, order)
    ELSE Result(wps, <<>>, FALSE)

\* plays.split(self.multi_game_delimiter)
GameNames(handler, content) ==
    SplitBy(extract_remainder_after_fragments(Fragments(handler), content), "/")

MixinHandlers == {"WouldPlay", "Same", "Clear", "Ping"}

\* every candidate game name a message can hold
CandidateNames ==
    UNION {{GameNames(h, c)[i] : i \in 1..Len(GameNames(h, c))} :
              h \in MixinHandlers, c \in Messages}

LookupOf == [n \in CandidateNames |-> lookup_game_by_name_or_alias(n)] @@ <<>>

\* the loop of GameExtractionMixin.get_all_responses putting each game's
\* responses in front of those collected so far
RECURSIVE GameLoop_Prepend(_, _, _, _, _)
GameLoop_Prepend(handler, wps, author, game_names, t) ==
    IF game_names = <<>> THEN Result(wps, <<>>, FALSE)
    ELSE IF Head(game_names) = <<>>
         THEN GameLoop_Prepend(handler, wps, author, Tail(game_names), t)
         ELSE LET game == LookupOf[Head(game_names)]
                  r    == WithGame(handler, wps, author, game, t)
              IN  IF r.raised THEN Raise(r.wps)
                  ELSE LET rest == GameLoop_Prepend(handler, r.wps, author,
                                                    Tail(game_names), t)
                       IN  IF rest.raised THEN Raise(rest.wps)
                           ELSE Result(rest.wps, rest.out \o r.out, FALSE)

\* the loop of GameExtractionMixin.get_all_responses over game_names; an
\* exception in one iteration ends the loop
RECURSIVE GameLoop(_, _, _, _, _)
GameLoop(handler, wps, author, game_names, t) ==
    IF game_names = <<>> THEN Result(wps, <<>>, FALSE)
    ELSE IF Head(game_names) = <<>>
         THEN GameLoop(handler, wps, author, Tail(game_names), t)
         ELSE LET game == LookupOf[Head(game_names)]
                  r    == WithGame(handler, wps, author, game, t)
              IN  IF r.raised THEN Raise(r.wps)
                  ELSE LET rest == GameLoop(handler, r.wps, author, Tail(game_names), t)
                       IN  IF rest.raised THEN Raise(rest.wps)
                           ELSE Result(rest.wps, r.out \o rest.out, FALSE)

\* GameNames and lookup_game_by_name_or_alias tabulated over the messages
GameNamesOf == [h \in MixinHandlers |-> [c \in Messages |-> GameNames(h, c)] @@ <<>>] @@ <<>>

\* GameExtractionMixin.get_all_responses
Mixin_get_all_responses(handler, wps, author, content, t, order) ==
    LET game_names == GameNamesOf[handler][content]
    IN  IF \E i \in 1..Len(game_names) : game_names[i] # <<>>
        THEN GameLoop(handler, wps, author, game_names, t)
        ELSE WithoutGame(handler, wps, author, t, order)

\* ContentBasedHandler.should_handle
ContentBased_should_handle(fragments, content) ==
    \E i \in 1..Len(fragments) : StartsWith(Lower(content), Lower(fragments[i]))

\* MentionMessageHandler.should_handle comparing the remainder with the
\* keyword instead of testing startswith
Mention_should_handle_Exact(keywords, content) ==
    LET s == split_by_first_mention(content)
    IN  /\ s.ok
        /\ is_bot_mention(s.mention)
        /\ \E i \in 1..Len(keywords) : Lower(s.remainder) = Lower(keywords[i])

\* MentionMessageHandler.should_handle (for a content on which
\* split_by_first_mention does not raise)
Mention_should_handle(keywords, content) ==
    LET s == split_by_first_mention(content)
    IN  /\ s.ok
        /\ is_bot_mention(s.mention)
        /\ \E i \in 1..Len(keywords) : StartsWith(Lower(s.remainder), Lower(keywords[i]))

\* MentionMessageHandler.split_string_by_keywords
RECURSIVE split_string_by_keywords(_, _)
split_string_by_keywords(keywords, string) ==
    IF keywords = <<>> THEN [keyword |-> <<>>, found |-> FALSE, rest |-> string]
    ELSE LET kw_removed_string == RemoveFirst(string, Head(keywords))
         IN  IF kw_removed_string # string
             THEN [keyword |-> Head(keywords), found |-> TRUE,
                   rest |-> Strip(kw_removed_string)]
             ELSE split_string_by_keywords(Tail(keywords), string)

\* AccidentalRoleMentionHandler.should_handle
AccidentalRoleMention_should_handle(content) ==
    Contains(clean_content(content), T_Play_Register) /\ Contains(content, T_role_marker)

\* AccidentalRoleMentionHandler.get_all_responses
AccidentalRoleMentionHandler_get_all_responses(wps) ==
    Result(wps, <<[kind |-> "role warning"]>>, FALSE)

\* game.name of every catalog game, in catalog order
RECURSIVE GameNameLines(_)
GameNameLines(gs) ==
    IF gs = <<>> THEN <<>> ELSE <<GameNameText(Head(gs))>> \o GameNameLines(Tail(gs))

\* QueryGameHandler.get_all_responses
QueryGameHandler_get_all_responses(wps) ==
    Result(wps, <<[kind |-> "game names", lines |-> GameNameLines(games)]>>, FALSE)

\* the attributes getattr finds: those of a Game, and of None only what every
\* Python object has
HasAttribute(game, attribute) ==
    IF game = NoGame THEN attribute \in {T_class}
    ELSE attribute \in {T_name, T_aliases, T_class}

\* game.aliases as the list ', '.join iterates
aliases_list(g) == IF g = "Chess" THEN <<T_chess>> ELSE <<T_go>>

\* display_function(getattr(game, attribute))
DisplayAttribute(game, attribute) ==
    IF attribute = T_aliases THEN Join(<<",", " ">>, aliases_list(game))
    ELSE IF attribute = T_name THEN GameNameText(game)
    ELSE <<"str">> \o <<game>> \o attribute

\* QueryPropertyHandler.get_all_responses: the unpacking of line 197 raises
\* ValueError on fewer than two tokens, getattr raises AttributeError on an
\* attribute the object lacks
QueryPropertyHandler_get_all_responses(wps, content) ==
    LET remainder == split_by_first_mention(content).remainder
        kw        == split_string_by_keywords(<<T_query>>, remainder)
        tokens    == SplitBy(kw.rest, " ")
    IN  IF Len(tokens) < 2 THEN Raise(wps)
        ELSE LET attribute == tokens[1]
                 game      == lookup_game_by_name_or_alias(tokens[2])
             IN  IF ~HasAttribute(game, attribute) THEN Raise(wps)
                 ELSE Result(wps,
                             <<[kind |-> "property", attribute |-> attribute,
                                value |-> DisplayAttribute(game, attribute)]>>,
                             FALSE)

(***************************************************************************)
(* State                                                                   *)
(***************************************************************************)
VARIABLES
    would_plays,   \* the roster store: the would-play records, oldest first
    before,        \* history: the roster store as the last step found it
    now,           \* the clock that stamps the records
    handled,       \* the last step: handler, author and content of the message
    responses,     \* what get_all_responses returned in the last step
    raised,        \* whether get_all_responses raised in the last step
    cleared,       \* history: the games cleared by Clear or Ping with no
                   \* WouldPlayHandler record since
    inflight       \* the messages being handled, operation by operation
                   \* (used by StepSpec only)

vars == <<would_plays, before, now, handled, responses, raised, cleared, inflight>>

Handled(handler, author, content) ==
    [handler |-> handler, author |-> author, content |-> content]

\* the two message slots of StepSpec and a slot with no message
Slots == {"m1", "m2"}

Idle == [pc |-> "idle", handler |-> "-", author |-> "-", content |-> <<>>,
         start |-> <<>>, snapshot |-> <<>>, out |-> <<>>, raised |-> FALSE]

Init ==
    /\ would_plays = <<>>
    /\ before = <<>>
    /\ now = 0
    /\ handled = Handled("none", "-", <<>>)
    /\ responses = <<>>
    /\ raised = FALSE
    /\ cleared = {}
    /\ inflight = [s \in Slots |-> Idle]

\* the games whose roster the responses out report as cleared
ClearedBy(out) ==
    {out[i].game : i \in {j \in 1..Len(out) : out[j].kind \in {"Cleared", "ping"}}}

\* the effect of one get_all_responses call
Apply(handler, author, content, r) ==
    /\ would_plays' = r.wps
    /\ before' = would_plays
    /\ responses' = r.out
    /\ raised' = r.raised
    /\ handled' = Handled(handler, author, content)
    /\ cleared' = IF handler \in {"Clear", "Ping"} THEN cleared \cup ClearedBy(r.out)
                  ELSE IF handler = "WouldPlay"
                  THEN cleared \ {g \in GameSet : RecordsOf(r.wps, g) # RecordsOf(would_plays, g)}
                  ELSE cleared
    /\ UNCHANGED <<now, inflight>>

\* the messages each handler's should_handle accepts
Accepts(handler) ==
    CASE handler = "WouldPlay" ->
             {c \in Messages : ContentBased_should_handle(WouldPlayHandler_fragments, c)}
      [] handler = "Same" ->
             {c \in Messages : ContentBased_should_handle(SameHandler_fragments, c)}
      [] handler = "Status" -> {c \in Messages : Mention_should_handle(<<T_status>>, c)}
      [] handler = "Clear"  -> {c \in Messages : Mention_should_handle(<<T_clear>>, c)}
      [] handler = "Cancel" -> {c \in Messages : Mention_should_handle(<<T_cancel>>, c)}
      [] handler = "Ping"   -> {c \in Messages : Mention_should_handle(<<T_ping, T_p>>, c)}
      [] handler = "AccidentalRoleMention" ->
             {c \in Messages : AccidentalRoleMention_should_handle(c)}
      [] handler = "QueryGame" ->
             {c \in Messages : Mention_should_handle(<<T_query_games>>, c)}
      [] handler = "QueryProperty" ->
             {c \in Messages : Mention_should_handle(<<T_query>>, c)}

HandlerNames ==
    {"WouldPlay", "Same", "Status", "Clear", "Cancel", "Ping",
     "AccidentalRoleMention", "QueryGame", "QueryProperty"}

\* should_handle tabulated over the handlers and the messages
AcceptTable ==
    [h \in HandlerNames |-> [c \in Messages |-> c \in Accepts(h)] @@ <<>>] @@ <<>>

AcceptedBy == [h \in HandlerNames |-> {c \in Messages : AcceptTable[h][c]}] @@ <<>>

WouldPlayHandler ==
    \E content \in AcceptedBy["WouldPlay"], author \in Players :
        Apply("WouldPlay", author, content,
              Mixin_get_all_responses("WouldPlay", would_plays, author, content, now, games))

SameHandler ==
    \E content \in AcceptedBy["Same"], author \in Players, order \in Orders :
        Apply("Same", author, content,
              Mixin_get_all_responses("Same", would_plays, author, content, now, order))

StatusHandler ==
    \E content \in AcceptedBy["Status"], author \in Players :
        Apply("Status", author, content, StatusHandler_get_all_responses(would_plays))

ClearHandler ==
    \E content \in AcceptedBy["Clear"], author \in Players :
        Apply("Clear", author, content,
              Mixin_get_all_responses("Clear", would_plays, author, content, now, games))

CancelHandler ==
    \E content \in AcceptedBy["Cancel"], author \in Players :
        Apply("Cancel", author, content,
              CancelHandler_get_all_responses(would_plays, author))

PingHandler ==
    \E content \in AcceptedBy["Ping"], author \in Players :
        Apply("Ping", author, content,
              Mixin_get_all_responses("Ping", would_plays, author, content, now, games))

AccidentalRoleMentionHandler ==
    \E content \in AcceptedBy["AccidentalRoleMention"], author \in Players :
        Apply("AccidentalRoleMention", author, content,
              AccidentalRoleMentionHandler_get_all_responses(would_plays))

QueryGameHandler ==
    \E content \in AcceptedBy["QueryGame"], author \in Players :
        Apply("QueryGame", author, content, QueryGameHandler_get_all_responses(would_plays))

\* QueryPropertyHandler.get_all_responses tabulated over the messages it accepts
QueryPropertyOf ==
    {[content |-> c, r |-> QueryPropertyHandler_get_all_responses(<<>>, c)] :
        c \in AcceptedBy["QueryProperty"]}

QueryPropertyHandler ==
    \E e \in QueryPropertyOf, author \in Players :
        Apply("QueryProperty", author, e.content, Result(would_plays, e.r.out, e.r.raised))

\* whether evaluating should_handle raises: MentionMessageHandler.should_handle
\* calls split_by_first_mention, the other should_handle methods cannot raise
ShouldHandleRaises(handler, content) ==
    /\ handler \notin {"WouldPlay", "Same", "AccidentalRoleMention"}
    /\ ~split_by_first_mention(content).ok

\* the messages should_handle is evaluated on by itself
ProbeMessages ==
    { T_Id_play \o SP \o T_chess,                    \* I'd play chess
      BotSays(T_query_games),                        \* <@1> query games
      <<"<","@">> \o CLIENT_ID \o SP \o T_status }   \* <@1 status

\* the answer of every handler's should_handle on a message: "yes", "no" or
\* "raises"
ShouldHandleOf ==
    [c \in ProbeMessages |->
        [h \in HandlerNames |->
            IF ShouldHandleRaises(h, c) THEN "raises"
            ELSE IF AcceptTable[h][c] THEN "yes" ELSE "no"] @@ <<>>] @@ <<>>

\* should_handle of every handler evaluated on one message
ShouldHandle ==
    \E content \in ProbeMessages, author \in Players :
        /\ handled' = Handled("should_handle", author, content)
        /\ responses' = <<[kind |-> "should_handle", answers |-> ShouldHandleOf[content]]>>
        /\ raised' = (\E h \in HandlerNames : ShouldHandleOf[content][h] = "raises")
        /\ before' = would_plays
        /\ UNCHANGED <<would_plays, now, cleared, inflight>>

\* time passes between two messages
Tick ==
    /\ now < MaxTime
    /\ now' = now + 1
    /\ handled' = Handled("tick", "-", <<>>)
    /\ responses' = <<>>
    /\ raised' = FALSE
    /\ before' = would_plays
    /\ UNCHANGED <<would_plays, cleared, inflight>>

Next ==
    \/ WouldPlayHandler
    \/ SameHandler
    \/ StatusHandler
    \/ ClearHandler
    \/ CancelHandler
    \/ PingHandler
    \/ AccidentalRoleMentionHandler
    \/ QueryGameHandler
    \/ QueryPropertyHandler
    \/ ShouldHandle
    \/ Tick

Spec == Init /\ [][Next]_vars

(***************************************************************************)
(* The text functions on their own.  TextSpec starts from any text of      *)
(* Texts as the content of the message and applies split_by_first_mention, *)
(* the should_handle of the mention-triggered handlers, the response       *)
(* generation of QueryPropertyHandler and a dispatch of the two query      *)
(* handlers to it; the store stays empty.                                  *)
(***************************************************************************)
T_Status      == <<"S","t","a","t","u","s">>
T_Query_Games == <<"Q","u","e","r","y"," ","G","a","m","e","s">>
T_hello       == <<"h","e","l","l","o">>

Leads   == {<<>>, <<"<","@">>, <<"<","@","!">>, T_role_marker}
Ids     == {CLIENT_ID, <<"3">>, <<"1","2","3">>}
Closers == {<<">">>, <<>>}
Gaps    == {<<>>, SP}
Words   == {T_status, T_Status, T_ping, T_hello, T_query_games, T_Query_Games,
            T_query_games \o SP \o T_chess,
            T_query \o SP \o T_aliases \o SP \o T_chess}
Tails   == {<<>>, SP \o Mention(<<"3">>)}

\* lead id close gap word tail, e.g. <@!123> ping, <@1 status, hello <@3>
Texts ==
    {lead \o (IF lead = <<>> THEN <<>> ELSE id \o close) \o gap \o word \o tail :
        lead \in Leads, id \in Ids, close \in Closers, gap \in Gaps,
        word \in Words, tail \in Tails}

MentionHandlerNames == {"Status", "Clear", "Cancel", "Ping", "QueryGame", "QueryProperty"}

\* the keywords of a mention-triggered handler
Keywords(handler) ==
    CASE handler = "Status"        -> <<T_status>>
      [] handler = "Clear"         -> <<T_clear>>
      [] handler = "Cancel"        -> <<T_cancel>>
      [] handler = "Ping"          -> <<T_ping, T_p>>
      [] handler = "QueryGame"     -> <<T_query_games>>
      [] handler = "QueryProperty" -> <<T_query>>

TextInit ==
    /\ would_plays = <<>>
    /\ before = <<>>
    /\ now = 0
    /\ handled \in {Handled("none", "-", text) : text \in Texts}
    /\ responses = <<>>
    /\ raised = FALSE
    /\ cleared = {}
    /\ inflight = [s \in Slots |-> Idle]

\* split_by_first_mention applied to the text
SplitByFirstMention ==
    LET s == split_by_first_mention(handled.content)
    IN  /\ handled' = Handled("split_by_first_mention", "-", handled.content)
        /\ responses' = IF s.ok
                        THEN <<[kind |-> "split", mention |-> s.mention,
                                remainder |-> s.remainder]>>
                        ELSE <<>>
        /\ raised' = ~s.ok
        /\ UNCHANGED <<would_plays, before, now, cleared, inflight>>

\* should_handle of one mention-triggered handler applied to the text
MentionShouldHandle ==
    \E h \in MentionHandlerNames :
        LET s == split_by_first_mention(handled.content)
        IN  /\ handled' = Handled("Mention.should_handle", "-", handled.content)
            /\ responses' = IF s.ok
                            THEN <<[kind |-> "should_handle", handler |-> h,
                                    answer |-> Mention_should_handle(Keywords(h), handled.content)]>>
                            ELSE <<>>
            /\ raised' = ~s.ok
            /\ UNCHANGED <<would_plays, before, now, cleared, inflight>>

\* QueryPropertyHandler.get_all_responses applied to a text its should_handle
\* accepts
QueryPropertyOnText ==
    /\ Mention_should_handle(Keywords("QueryProperty"), handled.content)
    /\ LET r == QueryPropertyHandler_get_all_responses(would_plays, handled.content)
       IN  /\ handled' = Handled("QueryProperty.get_all_responses", "-", handled.content)
           /\ responses' = r.out
           /\ raised' = r.raised
           /\ UNCHANGED <<would_plays, before, now, cleared, inflight>>

\* get_all_responses of the two query handlers
QueryResponses(handler, content) ==
    IF handler = "QueryGame" THEN QueryGameHandler_get_all_responses(<<>>)
    ELSE QueryPropertyHandler_get_all_responses(<<>>, content)

\* the dispatcher over the handler list hs: every handler that accepts the
\* message is invoked (only the first one unless all), its responses are
\* replied; a failure of a handler is skipped when the dispatcher isolates
\* handlers and ends the dispatch otherwise
RECURSIVE Dispatch(_, _, _, _)
Dispatch(hs, all, isolate, content) ==
    IF hs = <<>> THEN [out |-> <<>>, raised |-> FALSE]
    ELSE IF ~Mention_should_handle(Keywords(Head(hs)), content)
    THEN Dispatch(Tail(hs), all, isolate, content)
    ELSE LET r == QueryResponses(Head(hs), content)
             rest == IF all THEN Dispatch(Tail(hs), all, isolate, content)
                     ELSE [out |-> <<>>, raised |-> FALSE]
         IN  IF r.raised /\ ~isolate THEN [out |-> <<>>, raised |-> TRUE]
             ELSE [out |-> r.out \o rest.out, raised |-> rest.raised]

QueryOrders == {<<"QueryGame", "QueryProperty">>, <<"QueryProperty", "QueryGame">>}

\* one dispatch of the text to the two query handlers
QueryDispatch ==
    \E order \in QueryOrders, all \in BOOLEAN, isolate \in BOOLEAN :
        /\ split_by_first_mention(handled.content).ok
        /\ LET d == Dispatch(order, all, isolate, handled.content)
           IN  /\ handled' = [handler |-> "dispatch", author |-> "-",
                              content |-> handled.content,
                              order |-> order, all |-> all, isolate |-> isolate]
               /\ responses' = d.out
               /\ raised' = d.raised
               /\ UNCHANGED <<would_plays, before, now, cleared, inflight>>

TextNext ==
    \/ SplitByFirstMention
    \/ MentionShouldHandle
    \/ QueryPropertyOnText
    \/ QueryDispatch

TextSpec == TextInit /\ [][TextNext]_vars

(***************************************************************************)
(* Handling operation by operation.  StepSpec delivers messages into two   *)
(* slots and runs each handler one roster operation at a time:             *)
(* WouldPlayHandler.get_all_responses_with_game is db.record_would_play    *)
(* (line 95) and then the read of the players and of the readiness (lines  *)
(* 96-97); the other handlers make at most one roster operation.  The      *)
(* dispatcher runs on one thread: a handler that has begun is left only    *)
(* where it suspends.                                                      *)
(***************************************************************************)
StepMessages ==
    { T_Id_play \o SP \o T_go,                       \* I'd play go
      BotSays(T_clear \o SP \o SL \o T_go),           \* <@1> clear /go
      BotSays(T_cancel),                              \* <@1> cancel
      BotSays(T_ping \o SP \o T_chess) }              \* <@1> ping chess

StepHandlers == {"WouldPlay", "Clear", "Cancel", "Ping"}

\* a handler with an await between its two roster operations
Suspends_Await(handler) == TRUE

\* whether a handler suspends between its roster operations: the handlers are
\* plain functions, nothing is awaited between line 95 and lines 96-97 or
\* between line 171 and line 172
Suspends(handler) == FALSE

\* the one thread is free for slot s: no other slot is inside a handler,
\* unless that handler is suspended
MayRun(s) ==
    \A o \in Slots \ {s} :
        inflight[o].pc = "recorded" => Suspends(inflight[o].handler)

\* the game "I'd play <name>" names
StepGame(content) == LookupOf[GameNamesOf["WouldPlay"][content][1]]

\* the transport delivers a message that a handler accepts
Arrive ==
    \E s \in Slots, h \in StepHandlers, author \in Players :
        \E content \in StepMessages \cap AcceptedBy[h] :
            /\ inflight[s].pc = "idle"
            /\ inflight' = [inflight EXCEPT ![s] =
                                [Idle EXCEPT !.pc = "arrived", !.handler = h,
                                             !.author = author, !.content = content]]
            /\ UNCHANGED <<would_plays, before, now, handled, responses, raised, cleared>>

\* WouldPlayHandler begins: db.record_would_play (line 95)
BeginWouldPlay ==
    \E s \in Slots :
        /\ inflight[s].pc = "arrived"
        /\ inflight[s].handler = "WouldPlay"
        /\ MayRun(s)
        /\ LET w == record_would_play(would_plays, inflight[s].author,
                                      StepGame(inflight[s].content), now)
           IN  /\ would_plays' = w
               /\ inflight' = [inflight EXCEPT ![s].pc = "recorded",
                                               ![s].start = would_plays,
                                               ![s].snapshot = w]
        /\ UNCHANGED <<before, now, handled, responses, raised, cleared>>

\* WouldPlayHandler goes on: the count and the readiness are read (lines 96-97)
ReadWouldPlay ==
    \E s \in Slots :
        /\ inflight[s].pc = "recorded"
        /\ MayRun(s)
        /\ LET game == StepGame(inflight[s].content)
           IN  inflight' = [inflight EXCEPT
                   ![s].pc = "done",
                   ![s].out = <<Line("would_play", inflight[s].author, game,
                                     Len(get_available_players(would_plays, game)))>>
                                  \o get_any_ready_messages(would_plays, game)]
        /\ UNCHANGED <<would_plays, before, now, handled, responses, raised, cleared>>

\* ClearHandler, CancelHandler and PingHandler from begin to end
RunOther ==
    \E s \in Slots :
        /\ inflight[s].pc = "arrived"
        /\ inflight[s].handler # "WouldPlay"
        /\ MayRun(s)
        /\ LET r == IF inflight[s].handler = "Cancel"
                    THEN CancelHandler_get_all_responses(would_plays, inflight[s].author)
                    ELSE Mixin_get_all_responses(inflight[s].handler, would_plays,
                                                 inflight[s].author, inflight[s].content,
                                                 now, games)
           IN  /\ would_plays' = r.wps
               /\ inflight' = [inflight EXCEPT ![s].pc = "done",
                                               ![s].start = would_plays,
                                               ![s].snapshot = r.wps,
                                               ![s].out = r.out,
                                               ![s].raised = r.raised]
        /\ UNCHANGED <<before, now, handled, responses, raised, cleared>>

\* the replies are sent and the slot is free again
Finish ==
    \E s \in Slots :
        /\ inflight[s].pc = "done"
        /\ inflight' = [inflight EXCEPT ![s] = Idle]
        /\ UNCHANGED <<would_plays, before, now, handled, responses, raised, cleared>>

StepNext ==
    \/ Arrive
    \/ BeginWouldPlay
    \/ ReadWouldPlay
    \/ RunOther
    \/ Finish

StepSpec == Init /\ [][StepNext]_vars

(***************************************************************************)
(* Properties.  `before` is the store the last step started from and       *)
(* would_plays the store it left, so a property of one message's handling  *)
(* is a state predicate.                                                   *)
(***************************************************************************)
\* the committed players of a game, as a set
Committed(wps, game) ==
    {get_available_players(wps, game)[i] : i \in 1..Len(get_available_players(wps, game))}

Count(wps, game) == Len(get_available_players(wps, game))

Ready(game) == [kind |-> "ready", game |-> game]

\* the positions of the responses that are commitment lines
LineIdx == {i \in 1..Len(responses) : responses[i].kind \in {"would_play", "would_also_play"}}

ReadyIdx == {i \in 1..Len(responses) : responses[i].kind = "ready"}

Msg_play_chess == T_Id_play \o SP \o T_chess
Msg_play_chess_go == T_Id_play \o SP \o T_chess \o SL \o T_go
Msg_play_chess_chess == T_Id_play \o SP \o T_chess \o SL \o T_chess
Msg_ping_chess == BotSays(T_ping \o SP \o T_chess)
Msg_clear_chess == BotSays(T_clear \o SP \o T_chess)

\* C1: the count a WouldPlayHandler line reports is the game's number of
\* available players after the record is stored; from an empty Chess roster
\* A's "I'd play chess" yields exactly the line with count 1, and B's message
\* after it the line with count 2 followed by the readiness announcement.
C1_CountAfterRecord ==
    (handled.handler = "WouldPlay" /\ ~raised) =>
        /\ \A i \in LineIdx :
               responses[i].count = Count(would_plays, responses[i].game)
        /\ (handled = Handled("WouldPlay", "A", Msg_play_chess)
              /\ Committed(before, "Chess") = {})
             => responses = <<Line("would_play", "A", "Chess", 1)>>
        /\ (handled = Handled("WouldPlay", "B", Msg_play_chess)
              /\ Committed(before, "Chess") = {"A"})
             => responses = <<Line("would_play", "B", "Chess", 2), Ready("Chess")>>

C1_Witness ==
    /\ handled = Handled("WouldPlay", "B", Msg_play_chess)
    /\ Committed(before, "Chess") = {"A"}
    /\ responses = <<Line("would_play", "B", "Chess", 2), Ready("Chess")>>

\* the games the last message recorded a would-play for
RecordedGames == {responses[i].game : i \in LineIdx}

NoDuplicates(seq) == \A i, j \in 1..Len(seq) : seq[i] = seq[j] => i = j

\* C2: no player is twice in a game's roster, and a would-play recorded by
\* WouldPlay or Same for the author on a game raises the game's count by 1
\* if the author was not committed to it and by 0 if the author was.
C2_IdempotentMembership ==
    /\ \A g \in GameSet : NoDuplicates(get_available_players(would_plays, g))
    /\ (handled.handler \in {"WouldPlay", "Same"} /\ ~raised) =>
           \A g \in RecordedGames :
               /\ handled.author \in Committed(would_plays, g)
               /\ Count(would_plays, g) =
                      Count(before, g)
                          + (IF handled.author \in Committed(before, g) THEN 0 ELSE 1)

C2_Witness ==
    /\ handled = Handled("WouldPlay", "A", Msg_play_chess_chess)
    /\ Committed(before, "Chess") = {"B"}
    /\ responses = <<Line("would_play", "A", "Chess", 2), Ready("Chess"),
                     Line("would_play", "A", "Chess", 2), Ready("Chess")>>

\* C3: with A and B committed to Chess, PingHandler on "<@1> ping chess"
\* replies with the mentions of A and B and the name Chess, and leaves Chess
\* with no available player.
C3_PingResolvesGame ==
    (handled.handler = "Ping" /\ handled.content = Msg_ping_chess
        /\ get_available_players(before, "Chess") = <<"A", "B">>)
      => /\ ~raised
         /\ responses = <<[kind |-> "ping",
                           mentions |-> <<create_mention("A"), create_mention("B")>>,
                           game |-> "Chess"]>>
         /\ Count(would_plays, "Chess") = 0

\* C4: CancelHandler takes the author out of every game, leaves every other
\* player committed to exactly the games they were committed to, and returns
\* the one confirmation naming the author.
C4_CancelOnlyAuthor ==
    handled.handler = "Cancel" =>
        /\ ~raised
        /\ responses = <<[kind |-> "Cancelled", name |-> display_name(handled.author)]>>
        /\ \A g \in GameSet :
               /\ handled.author \notin Committed(would_plays, g)
               /\ \A q \in Players \ {handled.author} :
                      q \in Committed(would_plays, g) <=> q \in Committed(before, g)

C4_Witness ==
    /\ handled.handler = "Cancel"
    /\ handled.author = "A"
    /\ Committed(before, "Chess") = {"A", "B"}
    /\ Committed(would_plays, "Chess") = {"B"}

\* C5: ClearHandler on "<@1> clear chess" empties the roster of Chess,
\* replies "Cleared Chess" and leaves the other rosters as they were.
C5_ClearNamedGame ==
    (handled.handler = "Clear" /\ handled.content = Msg_clear_chess
        /\ Committed(before, "Chess") # {}) =>
        /\ ~raised
        /\ responses = <<[kind |-> "Cleared", game |-> "Chess"]>>
        /\ Count(would_plays, "Chess") = 0
        /\ get_available_players(would_plays, "Go") = get_available_players(before, "Go")

\* the catalog games the non-empty candidate names of the last message
\* resolve to, in the order of the names
RECURSIVE ResolvedGames(_)
ResolvedGames(names) ==
    IF names = <<>> THEN <<>>
    ELSE (IF Head(names) = <<>> THEN <<>> ELSE <<LookupOf[Head(names)]>>)
             \o ResolvedGames(Tail(names))

NamedGames == ResolvedGames(GameNamesOf["WouldPlay"][handled.content])

\* the responses cut into blocks: block k runs from the k-th commitment line
\* to the response before the next commitment line
LineAt(k) == CHOOSE i \in LineIdx : Cardinality({j \in LineIdx : j < i}) = k - 1

BlockEnd(k) ==
    IF k = Cardinality(LineIdx) THEN Len(responses) ELSE LineAt(k + 1) - 1

\* C6: a would-play message naming several catalog games commits the author
\* to each of them, and its responses are, in the order of the names, each
\* game's commitment line followed by that game's readiness messages.
C6_PerGameInOrder ==
    (handled.handler = "WouldPlay" /\ NamedGames # <<>>
        /\ \A k \in 1..Len(NamedGames) : NamedGames[k] # NoGame) =>
        /\ ~raised
        /\ Cardinality(LineIdx) = Len(NamedGames)
        /\ responses # <<>> /\ 1 \in LineIdx
        /\ \A k \in 1..Len(NamedGames) :
               /\ responses[LineAt(k)].game = NamedGames[k]
               /\ responses[LineAt(k)].user = handled.author
               /\ handled.author \in Committed(would_plays, NamedGames[k])
               /\ \A i \in (LineAt(k) + 1)..BlockEnd(k) :
                      responses[i] = Ready(NamedGames[k])
        /\ (handled.content = Msg_play_chess_go /\ before = <<>>) =>
               responses = <<Line("would_play", handled.author, "Chess", 1),
                             Line("would_play", handled.author, "Go", 1),
                             Ready("Go")>>

C6_Witness ==
    /\ handled = Handled("WouldPlay", "B", Msg_play_chess_go)
    /\ Committed(before, "Chess") = {"A"}
    /\ Committed(before, "Go") = {}
    /\ responses = <<Line("would_play", "B", "Chess", 2), Ready("Chess"),
                     Line("would_play", "B", "Go", 1), Ready("Go")>>

\* the "has" lines a status reply must hold: one per catalog game with an
\* available player, with its count
HasLines(wps) ==
    {[kind |-> "has", game |-> g, count |-> Count(wps, g)] :
        g \in {h \in GameSet : Committed(wps, h) # {}}}

\* C7: both "<@1> status" and "<@!1> status" are accepted by StatusHandler,
\* and in every roster state its reply is one string that starts with
\* "Bot alive" and lists exactly the games with an available player, each once
\* with its count; the rosters are left as they were.
C7_StatusSingleReply ==
    /\ {BotSays(T_status), MentionBang(CLIENT_ID) \o SP \o T_status} \subseteq AcceptedBy["Status"]
    /\ handled.handler = "Status" =>
           /\ ~raised
           /\ Len(responses) = 1
           /\ responses[1].lines[1] = BotAlive
           /\ LET lines == responses[1].lines
                  has   == {i \in 1..Len(lines) : lines[i].kind = "has"}
              IN  /\ {lines[i] : i \in has} = HasLines(would_plays)
                  /\ Cardinality(has) = Cardinality(HasLines(would_plays))
           /\ would_plays = before

C7_Witness ==
    /\ handled.handler = "Status"
    /\ Committed(would_plays, "Chess") = {"A", "B"}
    /\ Committed(would_plays, "Go") = {}
    /\ responses = <<[kind |-> "joined",
                      lines |-> <<BotAlive,
                                  [kind |-> "has", game |-> "Chess", count |-> 2],
                                  Ready("Chess")>>]>>

LastGames(wps) ==
    {get_last_would_plays_at_same_time(wps)[i].game :
        i \in 1..Len(get_last_would_plays_at_same_time(wps))}

\* C9: a bare "same" commits the author to every game that has a record with
\* the most recent timestamp, announces each of them once, and every
\* commitment line comes before every readiness message.
C9_SameLinesBeforeReady ==
    (handled.handler = "Same" /\ handled.content = T_same) =>
        /\ ~raised
        /\ \A g \in LastGames(before) :
               /\ handled.author \in Committed(would_plays, g)
               /\ Cardinality({i \in LineIdx : responses[i].game = g}) = 1
        /\ RecordedGames = LastGames(before)
        /\ \A i \in LineIdx, j \in ReadyIdx : i < j

C9_Witness ==
    /\ handled = Handled("Same", "B", T_same)
    /\ LastGames(before) = {"Chess", "Go"}
    /\ Cardinality(LineIdx) = 2
    /\ Cardinality(ReadyIdx) = 2
    /\ responses[1].game = responses[3].game

\* the last message holds a candidate name that is no catalog game
UnknownNamed ==
    /\ handled.handler \in MixinHandlers
    /\ \E i \in 1..Len(GameNamesOf[handled.handler][handled.content]) :
           LET n == GameNamesOf[handled.handler][handled.content][i]
           IN  n # <<>> /\ LookupOf[n] = NoGame

\* C10: get_all_responses of WouldPlay, Same, Clear and Ping on a message
\* with an unknown game name completes without raising and leaves no record
\* of a game that is not in the catalog.
C10_UnknownGameNoFailure ==
    UnknownNamed =>
        /\ ~raised
        /\ \A i \in 1..Len(would_plays) : would_plays[i].game \in GameSet

\* the game a "same <name>" message names: NoGame for bare "same" and for an
\* unknown name
SameNamed ==
    LET names == GameNamesOf["Same"][handled.content]
    IN  IF names = <<>> \/ names[1] = <<>> THEN NoGame ELSE LookupOf[names[1]]

\* C12: "same", with or without a game name, returns no response and records
\* nothing when the store holds no would-play record, and "same <game>" does
\* so when the store holds no record of that game; "cancel" by an author who
\* is committed to nothing returns its one confirmation and leaves the store
\* as it was; "status" with no available player returns the one reply "Bot
\* alive"; none of them raises.
C12_NoOpNeverError ==
    /\ (handled.handler = "Same"
          /\ (before = <<>>
                \/ (SameNamed # NoGame /\ Committed(before, SameNamed) = {})))
         => (~raised /\ responses = <<>> /\ would_plays = before)
    /\ (handled.handler = "Cancel"
          /\ \A g \in GameSet : handled.author \notin Committed(before, g))
         => /\ ~raised
            /\ responses = <<[kind |-> "Cancelled", name |-> display_name(handled.author)]>>
            /\ would_plays = before
    /\ (handled.handler = "Status" /\ \A g \in GameSet : Committed(before, g) = {})
         => /\ ~raised
            /\ responses = <<[kind |-> "joined", lines |-> <<BotAlive>>]>>
            /\ would_plays = before

C12_Witness ==
    /\ handled = Handled("Same", "B", T_same \o SP \o T_chess)
    /\ Committed(before, "Go") = {"A"}
    /\ Committed(before, "Chess") = {}
    /\ responses = <<>>
    /\ would_plays = before

\* the game "same <name>" records for: the named game, or the game of the
\* most recent record when the name is no catalog game
SameTarget ==
    IF SameNamed # NoGame THEN SameNamed ELSE get_last_would_play(before, NoGame).game

\* C16: SameHandler on a message with a game candidate never raises; if the
\* lookup of the last record (of the named game, of any game when the name
\* resolves to none) finds one, the author is committed to the named game, or
\* to the found record's game when the name resolved to none, the response is
\* the one line with the count after the record followed by the readiness
\* message if the game is then ready, and the other games keep their rosters;
\* no record is ever stored for a game outside the catalog.
C16_SameWithCandidate ==
    /\ \A i \in 1..Len(would_plays) : would_plays[i].game \in GameSet
    /\ (handled.handler = "Same" /\ handled.content # T_same) =>
           /\ ~raised
           /\ get_last_would_play(before, SameNamed) # NoRecord =>
                  /\ SameTarget \in GameSet
                  /\ Committed(would_plays, SameTarget) =
                         Committed(before, SameTarget) \cup {handled.author}
                  /\ responses =
                         <<Line("would_also_play", handled.author, SameTarget,
                                Count(would_plays, SameTarget))>>
                         \o (IF is_ready_to_play(would_plays, SameTarget)
                             THEN <<Ready(SameTarget)>> ELSE <<>>)
                  /\ \A g \in GameSet \ {SameTarget} :
                         get_available_players(would_plays, g) = get_available_players(before, g)

C16_Witness ==
    /\ handled = Handled("Same", "B", T_same \o SP \o T_x)
    /\ get_last_would_play(before, NoGame).game = "Chess"
    /\ Committed(before, "Chess") = {"A"}
    /\ Committed(before, "Go") = {"A"}
    /\ Committed(would_plays, "Go") = {"A"}
    /\ responses = <<Line("would_also_play", "B", "Chess", 2), Ready("Chess")>>

\* C18: a game cleared by Clear or Ping has no committed player until a
\* WouldPlayHandler message records one for it: meanwhile a "same" naming the
\* game returns no response and leaves the store as it was, and no other
\* "same", bare or naming something else, commits anybody to it.
C18_ClearedNotRevived ==
    /\ \A g \in cleared : Committed(would_plays, g) = {}
    /\ (handled.handler = "Same" /\ SameNamed \in cleared)
         => (~raised /\ responses = <<>> /\ would_plays = before)

\* Go was cleared while Chess kept a record, then B said "same"
C18_Witness ==
    /\ handled = Handled("Same", "B", T_same)
    /\ cleared = {"Go"}
    /\ Committed(before, "Chess") = {"A"}
    /\ Committed(would_plays, "Chess") = {"A", "B"}
    /\ Committed(would_plays, "Go") = {}

\* Go was cleared, then B said "same to go"
C18_WitnessNamed ==
    /\ handled = Handled("Same", "B", T_same_to \o SP \o T_go)
    /\ cleared = {"Go"}
    /\ before # <<>>
    /\ responses = <<>>

\* the (player, game) commitments of a store
Commitments(wps) == {<<wps[i].player, wps[i].game>> : i \in 1..Len(wps)}

RecordSet(wps) == {wps[i] : i \in 1..Len(wps)}

ReadOnlySteps == {"should_handle", "Status", "QueryGame", "QueryProperty", "AccidentalRoleMention"}

\* C20: evaluating should_handle, and get_all_responses of StatusHandler,
\* QueryGameHandler, QueryPropertyHandler and AccidentalRoleMentionHandler,
\* leave the store exactly as it was; a step after which the store holds a
\* record it did not hold is a WouldPlayHandler or SameHandler step, and a
\* step after which a player is no longer committed to a game is a
\* ClearHandler, PingHandler or CancelHandler step.
C20_Frame ==
    /\ handled.handler \in ReadOnlySteps => would_plays = before
    /\ RecordSet(would_plays) \ RecordSet(before) # {}
          => handled.handler \in {"WouldPlay", "Same"}
    /\ Commitments(before) \ Commitments(would_plays) # {}
          => handled.handler \in {"Clear", "Ping", "Cancel"}

C20_Witness ==
    /\ handled.handler = "Status"
    /\ Committed(before, "Go") = {"A", "B"}
    /\ Committed(before, "Chess") = {"B"}
    /\ would_plays = before
    /\ Len(responses) = 1

\* remainder.split(' ') of QueryPropertyHandler for the last message
QueryTokens ==
    SplitBy(split_string_by_keywords(<<T_query>>,
                                     split_by_first_mention(handled.content).remainder).rest,
            " ")

\* C15: QueryPropertyHandler on a message whose remainder after the keyword
\* has fewer than two tokens, or whose second token is no catalog game,
\* raises, returns no response and leaves the store as it was.
C15_QueryPropertyFails ==
    (handled.handler = "QueryProperty"
        /\ (Len(QueryTokens) < 2
              \/ lookup_game_by_name_or_alias(QueryTokens[2]) = NoGame))
      => (raised /\ responses = <<>> /\ would_plays = before)

\* the text after the trigger of the last message: after the fragment for
\* WouldPlay and Same, after the bot mention and the keyword for Clear and Ping
TriggerTail ==
    IF handled.handler \in {"Clear", "Ping"}
    THEN extract_remainder_after_fragments(Fragments(handled.handler),
                                           split_by_first_mention(handled.content).remainder)
    ELSE extract_remainder_after_fragments(Fragments(handled.handler), handled.content)

OnlyDelimiters(text) == \A i \in 1..Len(text) : text[i] = "/"

\* GameExtractionMixin.get_all_responses took the branch of line 45 for the
\* last message: the per-game generator is called
CallsWithGame ==
    \E i \in 1..Len(GameNamesOf[handled.handler][handled.content]) :
        GameNamesOf[handled.handler][handled.content][i] # <<>>

\* C13: when the text after the trigger is empty or holds only "/", the
\* multi-game extraction of WouldPlay, Same, Clear and Ping calls the no-game
\* fallback and not the per-game generator, and does not raise; ClearHandler
\* on "<@1> clear" replies "No game specified!" and clears no roster.
C13_EmptyTailFallsBack ==
    (handled.handler \in MixinHandlers /\ OnlyDelimiters(TriggerTail)) =>
        /\ ~CallsWithGame
        /\ ~raised
        /\ handled.handler = "Clear" =>
               /\ responses = <<[kind |-> "No game specified!"]>>
               /\ would_plays = before

\* the position of the ">" that closes the mention token a text begins
\* with, 0 when the text does not begin with one
MentionEnd(text) ==
    IF Len(text) >= 2 /\ text[1] = "<" /\ text[2] = "@"
          /\ \E k \in 3..Len(text) : text[k] = ">"
    THEN CHOOSE k \in 3..Len(text) : text[k] = ">" /\ \A j \in 3..(k - 1) : text[j] # ">"
    ELSE 0

Msg_mention123_ping == MentionBang(<<"1","2","3">>) \o SP \o T_ping

\* C17: split_by_first_mention returns on every text: for a text that
\* begins with a mention token, the token through its closing ">" and the
\* trimmed rest, later mentions included; for any other text, the empty
\* mention and the whole text; "<@!123> ping" gives ("<@!123>", "ping") and
\* "hello" gives ("", "hello").
C17_SplitTotal ==
    handled.handler = "split_by_first_mention" =>
        /\ ~raised
        /\ Len(responses) = 1
        /\ LET text == handled.content
               k    == MentionEnd(text)
           IN  IF k # 0
               THEN /\ responses[1].mention = SubSeq(text, 1, k)
                    /\ responses[1].remainder = Strip(SubSeq(text, k + 1, Len(text)))
               ELSE /\ responses[1].mention = <<>>
                    /\ responses[1].remainder = text
        /\ handled.content = Msg_mention123_ping =>
               /\ responses[1].mention = MentionBang(<<"1","2","3">>)
               /\ responses[1].remainder = T_ping
        /\ handled.content = T_hello =>
               (responses[1].mention = <<>> /\ responses[1].remainder = T_hello)

\* the claimed condition of should_handle: the text begins with <@ID> or
\* <@!ID> for the bot's id and the trimmed rest starts, whatever the case,
\* with one of the keywords
ExpectedAccept(keywords, text) ==
    \E m \in {Mention(CLIENT_ID), MentionBang(CLIENT_ID)} :
        /\ StartsWith(text, m)
        /\ \E i \in 1..Len(keywords) :
               StartsWith(Lower(Strip(Drop(text, Len(m)))), Lower(keywords[i]))

\* C11: should_handle of a mention-triggered handler returns on every text,
\* and returns true exactly when the text begins with a mention of the bot
\* (<@ID> or <@!ID>) and the trimmed remainder starts, case-insensitively,
\* with one of the handler's keywords; so it is false with no leading
\* mention, for another user's mention and for a role mention.
C11_MentionShouldHandle ==
    handled.handler = "Mention.should_handle" =>
        /\ ~raised
        /\ Len(responses) = 1
        /\ responses[1].answer =
               ExpectedAccept(Keywords(responses[1].handler), handled.content)

\* C19: every text QueryGameHandler.should_handle accepts is accepted by
\* QueryPropertyHandler.should_handle too, QueryPropertyHandler's response
\* generation raises on it and returns nothing, and a dispatch of such a text
\* replies with the game list only if QueryGameHandler comes first in the
\* handler list or the dispatcher isolates a failing handler.
C19_QueryOverlap ==
    Mention_should_handle(Keywords("QueryGame"), handled.content) =>
        /\ Mention_should_handle(Keywords("QueryProperty"), handled.content)
        /\ handled.handler = "QueryProperty.get_all_responses" =>
               (raised /\ responses = <<>>)
        /\ (handled.handler = "dispatch"
              /\ \E i \in 1..Len(responses) : responses[i].kind = "game names")
             => (handled.order[1] = "QueryGame" \/ handled.isolate)

\* "<@1> query games" dispatched to QueryPropertyHandler first, without
\* isolation: no reply
C19_Witness ==
    /\ handled.handler = "dispatch"
    /\ handled.content = BotSays(T_query_games)
    /\ handled.order = <<"QueryProperty", "QueryGame">>
    /\ handled.all
    /\ ~handled.isolate
    /\ raised
    /\ responses = <<>>

\* the mentions a ping reply of game g in out holds
PingedIn(out, g) ==
    UNION {{out[i].mentions[k] : k \in 1..Len(out[i].mentions)} :
              i \in {j \in 1..Len(out) : out[j].kind = "ping" /\ out[j].game = g}}

====
